---- MODULE Spec2Model ----
(***************************************************************************)
(* Model of the image resize service: the size calculator (_calc_size),   *)
(* the lazy resize-and-cache protocol (_serve_image / _resize_image), the  *)
(* upload handler (upload_image) and the storage they share.               *)
(***************************************************************************)
EXTENDS Integers, Sequences, FiniteSets, TLC

VARIABLES
    store,      \* the storage: key -> encoded bytes, or Absent
    pc,         \* per request handler: the line of _serve_image / _resize_image it is at
    req,        \* per request handler: (project, name, extension, size) of its call
    im,         \* per request handler: the local PIL image of _resize_image
    out,        \* per request handler: what its call returned or raised
    ops,        \* per request handler: the storage and codec calls its call has made
    raced,      \* per request handler: its call began with the variant missing and the original present
    dirty,      \* per key: an upload replaced the original while a call for the key was running
    uploaded,   \* per image: the file of the last successful upload
    last,       \* the serve call that returned in the previous step
    follow,     \* the serve call running right after an equal one, nothing in between
    resp,       \* upload on its own: the JSON answer to the last upload
    fitIn,      \* size calculator on its own: the arguments
    fitOut,     \* size calculator on its own: the result
    backend,    \* storage on its own: app.config['STORAGE']
    handle,     \* storage on its own: the file descriptor returned by the last get
    res         \* storage on its own: the last call and what it returned or raised

vars == <<store, pc, req, im, out, ops, raced, dirty, uploaded, last, follow, resp,
          resp, fitIn, fitOut, backend, handle, res>>

None == "None"

-----------------------------------------------------------------------------
(* Bounds of the size-calculator domain. *)
MaxBox == 16
MaxSrc == 23

-----------------------------------------------------------------------------
(* IEEE-754 binary64 arithmetic of  max_width / float(width)  and           *)
(* int(width * scale), for positive integers far below 2^26.               *)
(* A quotient fl(a/b) is kept as [num, den, exp, rem]: its mantissa is      *)
(* m = (a * 2^exp - rem) / b, an integer in 2^52 .. 2^53, and its value is  *)
(* m / 2^exp.  rem is the signed remainder left by round-to-nearest.        *)

MantissaBits == 52

RECURSIVE Pow2(_)
Pow2(n) == IF n <= 0 THEN 1 ELSE 2 * Pow2(n - 1)

RECURSIVE Pow2Mod(_, _)
\* 2^k mod b
Pow2Mod(k, b) == IF k <= 0 THEN 1 % b ELSE (2 * Pow2Mod(k - 1, b)) % b

RECURSIVE FloorLog2(_, _)
\* the integer e with 2^e <= a/b < 2^(e+1)
FloorLog2(a, b) ==
    IF a >= b
    THEN IF a >= 2 * b THEN 1 + FloorLog2(a, 2 * b) ELSE 0
    ELSE FloorLog2(2 * a, b) - 1

IsPow2(n) == n = Pow2(FloorLog2(n, 1))

\* max / float(dim): the double nearest to a/b.  A tie would need 2^(exp+1)
\* to divide b, which no b below 2^53 allows, so nearest is decided by 2R vs b.
FloatDiv(a, b) ==
    LET k == MantissaBits - FloorLog2(a, b)
        R == (a * Pow2Mod(k, b)) % b
    IN  [num |-> a, den |-> b, exp |-> k,
         rem |-> IF 2 * R < b THEN R ELSE R - b]

\* Python's min(x, y): y only when y < x.  Distinct quotients of small
\* integers round to distinct doubles, in the same order.
FloatMin(x, y) == IF y.num * x.den < x.num * y.den THEN y ELSE x

\* int(n * q): the exact product is n*a/b - n*rem/(b*2^exp); it is rounded to a
\* double and then truncated.  Only when n*a/b is an integer N and the quotient
\* was rounded down (rem > 0) can the product round below N; it does unless
\* the deficit is within half a unit in the last place below N.
IntOfProduct(n, q) ==
    LET N == (n * q.num) \div q.den
        j == FloorLog2(N, 1)
        t == IF IsPow2(N) THEN 1 ELSE 0
        x == j - (MantissaBits - q.exp) - 1 - t
    IN  IF (n * q.num) % q.den # 0 \/ q.rem <= 0 THEN N
        ELSE IF n * q.rem * Pow2(0 - x) <= q.den * Pow2(x) THEN N
        ELSE N - 1

\* max_width / float(0)
ZeroDivisionError == <<"ZeroDivisionError">>

\* _calc_size with the early return dropped: always scales.
calc_size_always_scale(target_size, size) ==
    IF size[1] = 0 \/ size[2] = 0 THEN ZeroDivisionError
    ELSE LET scale == FloatMin(FloatDiv(target_size[1], size[1]),
                               FloatDiv(target_size[2], size[2]))
         IN  <<IntOfProduct(size[1], scale), IntOfProduct(size[2], scale)>>

\* _calc_size(target_size, image), image given by its size
calc_size(target_size, size) ==
    LET max_width == target_size[1]
        max_height == target_size[2]
        width == size[1]
        height == size[2]
    IN  IF max_width >= width /\ max_height >= height
        THEN size
        ELSE IF width = 0 \/ height = 0
        THEN ZeroDivisionError
        ELSE LET scale == FloatMin(FloatDiv(max_width, width),
                                   FloatDiv(max_height, height))
             IN  <<IntOfProduct(width, scale), IntOfProduct(height, scale)>>

-----------------------------------------------------------------------------
(* Configuration (production.cfg): the projects and their named sizes.      *)

PROJECTS ==
    [demo_project |-> [dimensions |-> [small |-> <<2, 2>>]]]

ProjectNames == DOMAIN PROJECTS
SizeNames(project) == DOMAIN PROJECTS[project].dimensions
ALLOWED_EXTENSIONS == {"jpg", "png"}

Names == {"welcome"}
Extensions == {"jpg"}

\* /img/demo_project/welcome.jpg, /img/demo_project/welcome@small.jpg and the
\* two requests of test_invalid_project and test_invalid_size
Requests ==
    [project : ProjectNames, name : Names, extension : Extensions,
     size : {None} \cup SizeNames("demo_project")]
    \cup [project : {"bla"}, name : Names, extension : Extensions, size : {"small"}]
    \cup [project : ProjectNames, name : Names, extension : Extensions,
          size : {"blabla"}]

-----------------------------------------------------------------------------
(* The codec (PIL).  A file is [fmt, size, pic, gen]: pic names the picture *)
(* and gen counts the lossy JPEG encodings behind the bytes.  An image is   *)
(* [size, pic, gen].                                                        *)

Garbage == [fmt |-> "none"]

UploadFiles ==
    { [fmt |-> "PNG", size |-> <<4, 2>>, pic |-> "a", gen |-> 0],
      [fmt |-> "JPEG", size |-> <<2, 4>>, pic |-> "b", gen |-> 0],
      Garbage }

IsImageFile(bytes) == bytes.fmt \in {"PNG", "JPEG"}

\* Image.open(f)
ImageOpen(bytes) == [size |-> bytes.size, pic |-> bytes.pic, gen |-> bytes.gen]

\* pil_image.save(f, 'JPEG')
SaveJPEG(image) ==
    [fmt |-> "JPEG", size |-> image.size, pic |-> image.pic, gen |-> image.gen + 1]

\* im.resize(size)
Resize(image, size) == [image EXCEPT !.size = size]

-----------------------------------------------------------------------------
(* The storage (ImageStorage).                                              *)

Absent == [fmt |-> "absent"]
Nothing == [fmt |-> "nothing"]
NotFound == [fmt |-> "NotFound"]
KeyError == [fmt |-> "KeyError"]

Key(project, name, extension, size) == <<project, name, extension, size>>

Keys ==
    { Key(p, n, e, s) : p \in ProjectNames, n \in Names, e \in Extensions,
                        s \in {None} \cup UNION {SizeNames(q) : q \in ProjectNames} }

\* storage.exists(project, name, extension, size)
exists(s, key) == key \in DOMAIN s /\ s[key] # Absent

\* get that hands out whatever is under the key, also when nothing is
get_without_not_found(s, key) == s[key]

\* storage.get(project, name, extension, size)
get(s, key) == IF exists(s, key) THEN s[key] ELSE NotFound

\* save that creates an artifact but leaves an existing one as it is
save_keeps_existing(s, key, binary_data) ==
    IF exists(s, key) THEN s ELSE [s EXCEPT ![key] = binary_data]

\* storage.save(project, name, extension, binary_data, size)
save(s, key, binary_data) == [s EXCEPT ![key] = binary_data]

\* save_image with the size argument not passed on to save
save_image_drops_size(s, key, pil_image) ==
    save(s, Key(key[1], key[2], key[3], None), SaveJPEG(pil_image))

\* storage.save_image(project, name, extension, pil_image, size)
save_image(s, key, pil_image) == save(s, key, SaveJPEG(pil_image))

\* the two deployments of _storage(): FileImageStorage, DatastoreImageStorage
Backends == {"FILESYSTEM", "APPENGINE"}

IOError == [fmt |-> "IOError"]
NoCall == [op |-> "none"]

\* fd.write(data) passed through to the stored artifact
handle_write_through(b, s, h, data) ==
    [store |-> save(s, h.key, data), handle |-> [h EXCEPT !.data = data], ret |-> Nothing]

\* fd.write(data) on the descriptor h that get returned: the file of the
\* filesystem storage is opened read-only and raises IOError; the datastore
\* storage returns an io.BytesIO copy, which takes the write and stores nothing
handle_write(b, s, h, data) ==
    IF b = "FILESYSTEM"
    THEN [store |-> s, handle |-> h, ret |-> IOError]
    ELSE [store |-> s, handle |-> [h EXCEPT !.data = data], ret |-> Nothing]

-----------------------------------------------------------------------------
(* Request handlers: each runs one serve call at a time, one storage call   *)
(* per step.                                                                *)

NumHandlers == 2
Handlers == 1..NumHandlers

KeyOf(r) == Key(r.project, r.name, r.extension, r.size)
OriginalOf(r) == Key(r.project, r.name, r.extension, None)
Running(p) == pc[p] \notin {"idle", "done"}

\* _serve_image, lines 70-71 with the size test dropped
serve_image_no_size_test(r) == r.project \notin DOMAIN PROJECTS

\* _serve_image, lines 70-71: the condition of raise NotFound()
serve_image_rejects(r) ==
    \/ r.project \notin DOMAIN PROJECTS
    \/ (r.size # None /\ r.size \notin DOMAIN PROJECTS[r.project].dimensions)

\* what every step of handler p does to the two records of back-to-back calls
Sequel(p, returned) ==
    /\ last' = IF returned # Nothing /\ IsImageFile(returned)
               THEN [req |-> req[p], out |-> returned] ELSE Nothing
    /\ follow' = IF follow # Nothing /\ follow.proc = p THEN follow ELSE Nothing

\* a request arrives: _serve_image is entered and validates (lines 69-72)
Start(p, r) ==
    /\ pc[p] \in {"idle", "done"}
    /\ req' = [req EXCEPT ![p] = r]
    /\ im' = [im EXCEPT ![p] = Nothing]
    /\ ops' = [ops EXCEPT ![p] = {}]
    /\ IF serve_image_rejects(r)
       THEN /\ pc' = [pc EXCEPT ![p] = "done"]
            /\ out' = [out EXCEPT ![p] = NotFound]
            /\ raced' = [raced EXCEPT ![p] = FALSE]
       ELSE /\ pc' = [pc EXCEPT ![p] = "l73"]
            /\ out' = [out EXCEPT ![p] = Nothing]
            /\ raced' = [raced EXCEPT ![p] =
                   /\ r.size # None
                   /\ ~exists(store, KeyOf(r))
                   /\ exists(store, OriginalOf(r))]
    /\ last' = Nothing
    /\ follow' = IF last # Nothing /\ last.req = r
                 THEN [proc |-> p, out |-> last.out] ELSE Nothing
    /\ UNCHANGED <<store, dirty, uploaded, resp, fitIn, fitOut, backend, handle, res>>

\* line 73 never finding the artifact
serve_image_hit_never(s, r) == FALSE

\* line 73: _storage().exists(project, name, extension, size)
serve_image_hit(s, r) == exists(s, KeyOf(r))

\* line 73: if not _storage().exists(project, name, extension, size)
ServeExists(p) ==
    /\ pc[p] = "l73"
    /\ ops' = [ops EXCEPT ![p] = @ \cup {"exists"}]
    /\ pc' = [pc EXCEPT ![p] = IF serve_image_hit(store, req[p]) THEN "l76" ELSE "l57"]
    /\ Sequel(p, Nothing)
    /\ UNCHANGED <<store, req, im, out, raced, dirty, uploaded, resp, fitIn, fitOut, backend, handle, res>>

\* line 76: return send_file(_storage().get(project, name, extension, size))
ServeGet(p) ==
    /\ pc[p] = "l76"
    /\ ops' = [ops EXCEPT ![p] = @ \cup {"get"}]
    /\ out' = [out EXCEPT ![p] = get(store, KeyOf(req[p]))]
    /\ pc' = [pc EXCEPT ![p] = "done"]
    /\ Sequel(p, out'[p])
    /\ UNCHANGED <<store, req, im, raced, dirty, uploaded, resp, fitIn, fitOut, backend, handle, res>>

\* lines 57-58: if not _storage().exists(project, name, extension): raise NotFound()
ResizeExists(p) ==
    /\ pc[p] = "l57"
    /\ ops' = [ops EXCEPT ![p] = @ \cup {"exists"}]
    /\ IF exists(store, OriginalOf(req[p]))
       THEN /\ pc' = [pc EXCEPT ![p] = "l59"]
            /\ out' = out
       ELSE /\ pc' = [pc EXCEPT ![p] = "done"]
            /\ out' = [out EXCEPT ![p] = NotFound]
    /\ Sequel(p, Nothing)
    /\ UNCHANGED <<store, req, im, raced, dirty, uploaded, resp, fitIn, fitOut, backend, handle, res>>

\* the size _resize_image resizes to (line 60)
resize_target(r, image) ==
    calc_size(PROJECTS[r.project].dimensions[r.size], image.size)

\* lines 59-60: im = Image.open(get(original)); im = im.resize(_calc_size(dimensions[size], im))
ResizeOpen(p) ==
    LET bytes == get(store, OriginalOf(req[p]))
        r == req[p]
    IN  /\ pc[p] = "l59"
        /\ IF bytes = NotFound
           THEN /\ ops' = [ops EXCEPT ![p] = @ \cup {"get"}]
                /\ out' = [out EXCEPT ![p] = NotFound]
                /\ pc' = [pc EXCEPT ![p] = "done"]
                /\ im' = im
           ELSE IF r.size \notin DOMAIN PROJECTS[r.project].dimensions
           THEN /\ ops' = [ops EXCEPT ![p] = @ \cup {"get", "open", "lookup"}]
                /\ out' = [out EXCEPT ![p] = KeyError]
                /\ pc' = [pc EXCEPT ![p] = "done"]
                /\ im' = im
           ELSE /\ ops' = [ops EXCEPT ![p] = @ \cup {"get", "open", "lookup", "resize"}]
                /\ out' = out
                /\ pc' = [pc EXCEPT ![p] = "l61"]
                /\ im' = [im EXCEPT ![p] =
                       Resize(ImageOpen(bytes), resize_target(r, ImageOpen(bytes)))]
        /\ Sequel(p, Nothing)
        /\ UNCHANGED <<store, req, raced, dirty, uploaded, resp, fitIn, fitOut, backend, handle, res>>

\* lines 63-66 returning a second-generation encoding
resize_image_result_reencoded(image) == SaveJPEG(ImageOpen(SaveJPEG(image)))

\* lines 63-66: im.save(ret_file, 'JPEG'); return io.BytesIO(ret_file.read())
resize_image_result(image) == SaveJPEG(image)

\* lines 61-66: _storage().save_image(project, name, extension, im, size), then
\* im.save(ret_file, 'JPEG') and return its bytes
ResizeSave(p) ==
    /\ pc[p] = "l61"
    /\ ops' = [ops EXCEPT ![p] = @ \cup {"save_image", "encode"}]
    /\ store' = save_image(store, KeyOf(req[p]), im[p])
    /\ out' = [out EXCEPT ![p] = resize_image_result(im[p])]
    /\ pc' = [pc EXCEPT ![p] = "done"]
    /\ Sequel(p, out'[p])
    /\ im' = [im EXCEPT ![p] = Nothing]
    /\ UNCHANGED <<req, raced, dirty, uploaded, resp, fitIn, fitOut, backend, handle, res>>

-----------------------------------------------------------------------------
(* upload_image: one request, one storage call.                             *)

\* every upload of a picture to a configured project, and one upload for each
\* way of being turned down
UploadRequests ==
    [project : ProjectNames, name : Names, extension : Extensions, file : UploadFiles]
    \cup [project : {"bla"}, name : Names, extension : Extensions,
          file : {f \in UploadFiles : f.fmt = "PNG"}]
    \cup [project : ProjectNames, name : Names, extension : {"exe"},
          file : {f \in UploadFiles : f.fmt = "PNG"}]

\* line 164 passing a size to save_image
upload_key_small(u) == Key(u.project, u.name, u.extension, "small")

\* the key upload_image saves under (line 164: no size argument)
upload_key(u) == Key(u.project, u.name, u.extension, None)

\* line 163 followed by a shrink to the small box before the save
upload_image_opened_shrunk(u) ==
    Resize(ImageOpen(u.file),
           calc_size(PROJECTS[u.project].dimensions["small"], u.file.size))

\* line 163: im = Image.open(uploaded_file)
upload_image_opened(u) == ImageOpen(u.file)

\* lines 169-173 answering 'ok' when Image.open raised IOError
upload_response_swallows(u) ==
    IF u.project \notin DOMAIN PROJECTS
    THEN [status |-> "fail", message |-> "project is not configured!"]
    ELSE IF u.extension \notin ALLOWED_EXTENSIONS
    THEN [status |-> "fail", message |-> "unsupported image file extension"]
    ELSE [status |-> "ok", message |-> "url"]

\* lines 147-173: the JSON answer of upload_image
upload_response(u) ==
    IF u.project \notin DOMAIN PROJECTS
    THEN [status |-> "fail", message |-> "project is not configured!"]
    ELSE IF u.extension \notin ALLOWED_EXTENSIONS
    THEN [status |-> "fail", message |-> "unsupported image file extension"]
    ELSE IF ~IsImageFile(u.file)
    THEN [status |-> "fail", message |-> "not a recognized image format"]
    ELSE [status |-> "ok", message |-> "url"]

\* line 164 followed by dropping the artifacts derived from the image
upload_image_saved_invalidating(s, u) ==
    [k \in DOMAIN s |->
        IF k = upload_key(u) THEN SaveJPEG(upload_image_opened(u))
        ELSE IF <<k[1], k[2], k[3]>> = <<u.project, u.name, u.extension>> THEN Absent
        ELSE s[k]]

\* line 164: _storage().save_image(project, name, extension, im)
upload_image_saved(s, u) == save_image(s, upload_key(u), upload_image_opened(u))

\* lines 147-164: the upload is stored
upload_accepted(u) ==
    /\ u.project \in DOMAIN PROJECTS
    /\ u.extension \in ALLOWED_EXTENSIONS
    /\ IsImageFile(u.file)

\* upload_image, lines 144-178, but for its answer
UploadStore(u) ==
    /\ IF upload_accepted(u)
       THEN /\ store' = upload_image_saved(store, u)
            /\ uploaded' = [uploaded EXCEPT ![OriginalOf(u)] = u.file]
            /\ dirty' = [k \in DOMAIN dirty |->
                   \/ dirty[k]
                   \/ /\ exists(store, OriginalOf(u))
                      /\ \E p \in Handlers :
                            /\ Running(p)
                            /\ KeyOf(req[p]) = k
                            /\ OriginalOf(req[p]) = OriginalOf(u)]
       ELSE UNCHANGED <<store, uploaded, dirty>>
    /\ last' = Nothing
    /\ follow' = Nothing
    /\ UNCHANGED <<pc, req, im, out, ops, raced, fitIn, fitOut, backend, handle, res>>

\* upload_image beside the serve calls: its answer goes to the client unrecorded
Upload(u) == UploadStore(u) /\ UNCHANGED resp

\* upload_image with its answer kept
UploadAnswered(u) == UploadStore(u) /\ resp' = upload_response(u)

-----------------------------------------------------------------------------
(* The service: handlers and uploads interleaved.                           *)

VariantKeys == {k \in Keys : k[4] # None}
OriginalKeys == {k \in Keys : k[4] = None}

Init ==
    /\ store = [k \in Keys |-> Absent]
    /\ pc = [p \in Handlers |-> "idle"]
    /\ req = [p \in Handlers |-> Nothing]
    /\ im = [p \in Handlers |-> Nothing]
    /\ out = [p \in Handlers |-> Nothing]
    /\ ops = [p \in Handlers |-> {}]
    /\ raced = [p \in Handlers |-> FALSE]
    /\ dirty = [k \in VariantKeys |-> FALSE]
    /\ uploaded = [k \in OriginalKeys |-> Nothing]
    /\ last = Nothing
    /\ follow = Nothing
    /\ resp = Nothing
    /\ fitIn = Nothing
    /\ fitOut = <<>>
    /\ backend = "FILESYSTEM"
    /\ handle = Nothing
    /\ res = NoCall

Next ==
    \/ \E p \in Handlers, r \in Requests : Start(p, r)
    \/ \E p \in Handlers : ServeExists(p)
    \/ \E p \in Handlers : ServeGet(p)
    \/ \E p \in Handlers : ResizeExists(p)
    \/ \E p \in Handlers : ResizeOpen(p)
    \/ \E p \in Handlers : ResizeSave(p)
    \/ \E u \in UploadRequests : Upload(u)

Spec == Init /\ [][Next]_vars

-----------------------------------------------------------------------------
(* The upload handler with its answers, beside one request handler.         *)

NextUpload ==
    \/ \E u \in UploadRequests : UploadAnswered(u)
    \/ \E r \in Requests : Start(1, r)
    \/ ServeExists(1)
    \/ ServeGet(1)
    \/ ResizeExists(1)
    \/ ResizeOpen(1)
    \/ ResizeSave(1)

SpecUpload == Init /\ [][NextUpload]_vars

-----------------------------------------------------------------------------
(* The storage on its own, called as the storage tests call it.             *)

\* binary data handed to save
Blobs == {SaveJPEG(ImageOpen(f)) : f \in {g \in UploadFiles : IsImageFile(g)}}
         \cup {[fmt |-> "JPEG", size |-> <<15, 15>>, pic |-> "demo", gen |-> 1]}

InitStore ==
    /\ store = [k \in Keys |-> Absent]
    /\ backend \in Backends
    /\ handle = Nothing
    /\ res = NoCall
    /\ pc = [p \in Handlers |-> "idle"]
    /\ req = [p \in Handlers |-> Nothing]
    /\ im = [p \in Handlers |-> Nothing]
    /\ out = [p \in Handlers |-> Nothing]
    /\ ops = [p \in Handlers |-> {}]
    /\ raced = [p \in Handlers |-> FALSE]
    /\ dirty = [k \in VariantKeys |-> FALSE]
    /\ uploaded = [k \in OriginalKeys |-> Nothing]
    /\ last = Nothing
    /\ follow = Nothing
    /\ resp = Nothing
    /\ fitIn = Nothing
    /\ fitOut = <<>>

StoreFrame ==
    UNCHANGED <<pc, req, im, out, ops, raced, dirty, uploaded, last, follow, resp,
                fitIn, fitOut, backend>>

\* storage.save(project, name, extension, binary_data, size)
StoreSave(k, data) ==
    /\ store' = save(store, k, data)
    /\ res' = [op |-> "save", key |-> k, data |-> data, before |-> store[k]]
    /\ handle' = Nothing
    /\ StoreFrame

\* storage.exists(project, name, extension, size)
StoreExists(k) ==
    /\ res' = [op |-> "exists", key |-> k, ret |-> exists(store, k)]
    /\ UNCHANGED <<store, handle>>
    /\ StoreFrame

\* fd = storage.get(project, name, extension, size)
StoreGet(k) ==
    /\ res' = [op |-> "get", key |-> k, ret |-> get(store, k)]
    /\ handle' = IF get(store, k) = NotFound THEN Nothing
                 ELSE [key |-> k, data |-> get(store, k)]
    /\ UNCHANGED store
    /\ StoreFrame

\* fd.seek(0); fd.write(data)
HandleWrite(data) ==
    /\ handle # Nothing
    /\ LET w == handle_write(backend, store, handle, data)
       IN  /\ store' = w.store
           /\ handle' = w.handle
           /\ res' = [op |-> "write", key |-> handle.key, data |-> data, ret |-> w.ret]
    /\ StoreFrame

NextStore ==
    \/ \E k \in Keys, data \in Blobs : StoreSave(k, data)
    \/ \E k \in Keys : StoreExists(k)
    \/ \E k \in Keys : StoreGet(k)
    \/ \E data \in Blobs : HandleWrite(data)

SpecStore == InitStore /\ [][NextStore]_vars

-----------------------------------------------------------------------------
(* The size calculator on its own: inputs drawn from the bounded domain.    *)

InitFit ==
    /\ fitIn \in [box : (1..MaxBox) \X (1..MaxBox), src : (0..MaxSrc) \X (0..MaxSrc)]
    /\ fitOut = <<>>
    /\ store = [k \in Keys |-> Absent]
    /\ pc = [p \in Handlers |-> "idle"]
    /\ req = [p \in Handlers |-> Nothing]
    /\ im = [p \in Handlers |-> Nothing]
    /\ out = [p \in Handlers |-> Nothing]
    /\ ops = [p \in Handlers |-> {}]
    /\ raced = [p \in Handlers |-> FALSE]
    /\ dirty = [k \in VariantKeys |-> FALSE]
    /\ uploaded = [k \in OriginalKeys |-> Nothing]
    /\ last = Nothing
    /\ follow = Nothing
    /\ resp = Nothing
    /\ backend = "FILESYSTEM"
    /\ handle = Nothing
    /\ res = NoCall

CalcSizeCall ==
    /\ fitOut = <<>>
    /\ fitOut' = calc_size(fitIn.box, fitIn.src)
    /\ UNCHANGED <<store, pc, req, im, out, ops, raced, dirty, uploaded, last, follow,
                   resp, fitIn, backend, handle, res>>

NextFit == CalcSizeCall

SpecFit == InitFit /\ [][NextFit]_vars

-----------------------------------------------------------------------------
(* Properties of _serve_image, _resize_image and upload_image (Spec).       *)

Configured(r) == r.project \in DOMAIN PROJECTS
NamedSize(r) == r.size # None
ConfiguredSize(r) == Configured(r) /\ r.size \in DOMAIN PROJECTS[r.project].dimensions
InvalidRequest(r) == ~Configured(r) \/ (NamedSize(r) /\ ~ConfiguredSize(r))
Returns(p) == pc[p] # "done" /\ pc'[p] = "done"
CodecOrWrite == {"open", "lookup", "resize", "encode", "save_image"}

\* the variant _resize_image derives from the original stored in s
VariantOf(s, r) ==
    LET original == ImageOpen(s[OriginalOf(r)])
    IN  SaveJPEG(Resize(original,
            calc_size(PROJECTS[r.project].dimensions[r.size], original.size)))

\* C1: a serve call for an unconfigured project, or for a size that is given and
\* not configured, ends with NotFound at once, having made no storage call, and
\* the step that turns it down leaves the storage as it was.
C1_InvalidRequestNotFound ==
    /\ [](\A p \in Handlers :
            (pc[p] # "idle" /\ InvalidRequest(req[p]))
                => (pc[p] = "done" /\ out[p] = NotFound /\ ops[p] = {}))
    /\ [][\A p \in Handlers, r \in Requests :
            (InvalidRequest(r) /\ Start(p, r)) => store' = store]_vars

C1_Witness ==
    \E p, q \in Handlers :
        /\ pc[p] = "done" /\ req[p].size = "blabla" /\ out[p] = NotFound
        /\ pc[q] = "done" /\ req[q].project = "bla" /\ out[q] = NotFound
        /\ exists(store, OriginalOf(req[p]))

\* C2: a serve call for a configured named size that runs right after an equal
\* call that returned an image, with no step of anything else in between,
\* returns the same bytes and makes no codec call and no storage write.
C2_SecondCallIsCacheHit ==
    follow # Nothing =>
        LET p == follow.proc
        IN  (pc[p] = "done" /\ ConfiguredSize(req[p]))
                => /\ out[p] = follow.out
                   /\ ops[p] \cap CodecOrWrite = {}

C2_Witness ==
    /\ follow # Nothing
    /\ \E q \in Handlers :
        LET p == follow.proc
        IN  /\ q # p
            /\ pc[p] = "done" /\ pc[q] = "done"
            /\ req[p] = req[q] /\ ConfiguredSize(req[p])
            /\ "save_image" \in ops[q]
            /\ out[p] = out[q]
            /\ ops[p] = {"exists", "get"}

\* C6: once an upload of an image has succeeded, a serve call for the original
\* that tests for it goes on to read it, and what it returns decodes to the
\* pixel size of the file uploaded last.
C6_UploadThenServeOriginal ==
    [][\A p \in Handlers :
        LET r == req[p]
        IN  (/\ pc[p] \in {"l73", "l76"}
             /\ ~NamedSize(r) /\ uploaded[OriginalOf(r)] # Nothing)
                => /\ (pc[p] = "l73" /\ pc'[p] # "l73") => pc'[p] = "l76"
                   /\ (pc[p] = "l76" /\ pc'[p] # "l76")
                        => /\ pc'[p] = "done"
                           /\ IsImageFile(out'[p])
                           /\ ImageOpen(out'[p]).size = uploaded[OriginalOf(r)].size]_vars

C6_Witness ==
    \E p \in Handlers :
        /\ pc[p] = "done" /\ Configured(req[p]) /\ ~NamedSize(req[p])
        /\ uploaded[OriginalOf(req[p])] # Nothing
        /\ uploaded[OriginalOf(req[p])].fmt = "PNG"
        /\ IsImageFile(out[p])
        /\ out[p] # uploaded[OriginalOf(req[p])]
        /\ ImageOpen(out[p]).size = uploaded[OriginalOf(req[p])].size

\* C7: a serve call for the original of a configured project ends with image
\* bytes or with NotFound, and makes no decode, no bounding-box lookup, no
\* resize and no storage write, whatever uploads run beside it.
C7_OriginalServedDirectly ==
    \A p \in Handlers :
        (pc[p] = "done" /\ Configured(req[p]) /\ ~NamedSize(req[p]))
            => /\ out[p] = NotFound \/ IsImageFile(out[p])
               /\ ops[p] \cap CodecOrWrite = {}

\* C8: a named-size artifact is never stored without the original of the same
\* image, and a serve call that finds the original missing at line 57 ends
\* there with NotFound and writes nothing.
C8_VariantImpliesOriginal ==
    /\ [](\A k \in VariantKeys :
            exists(store, k) => exists(store, Key(k[1], k[2], k[3], None)))
    /\ [][\A p \in Handlers :
            (pc[p] = "l57" /\ pc'[p] # "l57" /\ ~exists(store, OriginalOf(req[p])))
                => (pc'[p] = "done" /\ out'[p] = NotFound /\ store' = store)]_vars

C8_Witness ==
    /\ \E k \in VariantKeys : exists(store, k)
    /\ \E p \in Handlers :
        /\ pc[p] = "done" /\ ConfiguredSize(req[p])
        /\ out[p] = NotFound /\ ops[p] = {"exists"}

\* C9: the step that writes a named-size artifact writes one whose pixel size
\* is calc_size of the size's bounding box and the pixel size of the original
\* stored at that moment.
C9_VariantFitsOriginalAtWrite ==
    [][\A p \in Handlers :
        (pc[p] = "l61" /\ Returns(p))
            => store'[KeyOf(req[p])].size =
                   calc_size(PROJECTS[req[p].project].dimensions[req[p].size],
                             store[OriginalOf(req[p])].size)]_vars

\* C10: a serve call that began with its variant missing and its original
\* stored, and during which (as during every other call for that variant) no
\* upload replaced the original, returns the encoding of the original resized
\* to calc_size, and the variant stored when it returns is those bytes.
C10_RaceWritesSameVariant ==
    [][\A p \in Handlers :
        (Returns(p) /\ raced[p] /\ ~dirty[KeyOf(req[p])])
            => /\ out'[p] = VariantOf(store, req[p])
               /\ store'[KeyOf(req[p])] = VariantOf(store, req[p])]_vars

C10_Witness ==
    \E p, q \in Handlers :
        /\ p # q
        /\ pc[p] = "done" /\ pc[q] = "done"
        /\ req[p] = req[q] /\ raced[p] /\ raced[q]
        /\ ~dirty[KeyOf(req[p])]
        /\ "save_image" \in ops[p] /\ "save_image" \in ops[q]
        /\ out[p] = out[q] /\ store[KeyOf(req[p])] = out[p]

-----------------------------------------------------------------------------
(* Properties of _calc_size (SpecFit).                                      *)

Called == fitOut # <<>>
Positive == fitIn.src[1] > 0 /\ fitIn.src[2] > 0
InvalidSource == <<"InvalidSource">>
Fits == fitIn.box[1] >= fitIn.src[1] /\ fitIn.box[2] >= fitIn.src[2]

\* floor(scale * n) for scale = min(maxW / w, maxH / h) as an exact quotient
ExactScaled(n) ==
    IF fitIn.box[1] * fitIn.src[2] <= fitIn.box[2] * fitIn.src[1]
    THEN (fitIn.box[1] * n) \div fitIn.src[1]
    ELSE (fitIn.box[2] * n) \div fitIn.src[2]

\* C3: when the source fits the bounding box, calc_size returns the source
\* size: it never upscales.
C3_NeverUpscale == (Called /\ Positive /\ Fits) => fitOut = fitIn.src

C3_Witness ==
    /\ Called /\ Positive /\ Fits
    /\ fitIn.box[1] > fitIn.src[1] /\ fitIn.box[2] > fitIn.src[2]
    /\ fitOut = fitIn.src

\* C4: when the source does not fit, calc_size returns
\* (floor(scale * w), floor(scale * h)) for the exact quotient
\* scale = min(maxW / w, maxH / h).
C4_ExactFloor ==
    (Called /\ Positive /\ ~Fits) => fitOut = <<ExactScaled(fitIn.src[1]), ExactScaled(fitIn.src[2])>>

\* C5: when the source does not fit, the size returned is within the bounding
\* box and equals it in width or in height.
C5_WithinAndTight ==
    (Called /\ Positive /\ ~Fits)
        => /\ fitOut[1] <= fitIn.box[1] /\ fitOut[2] <= fitIn.box[2]
           /\ fitOut[1] = fitIn.box[1] \/ fitOut[2] = fitIn.box[2]

-----------------------------------------------------------------------------
(* Properties of the storage (SpecStore).                                   *)

\* C11: after save(key, data) the key exists and get returns exactly data,
\* whether the key was absent or held other bytes; no other key changes, so the
\* original and the named sizes of an image are written independently.
C11_SaveThenGet ==
    /\ [](res.op = "save"
            => /\ exists(store, res.key)
               /\ get(store, res.key) = res.data)
    /\ [][\A k \in Keys, data \in Blobs :
            StoreSave(k, data)
                => \A k2 \in Keys \ {k} : store'[k2] = store[k2]]_vars
    /\ [][\A k \in Keys :
            (StoreGet(k) /\ res.op = "save" /\ res.key = k) => res'.ret = res.data]_vars

C11_Witness ==
    /\ res.op = "save"
    /\ IsImageFile(res.before) /\ res.before # res.data
    /\ store[res.key] = res.data
    /\ \E k2 \in Keys \ {res.key} : IsImageFile(store[k2]) /\ store[k2] # res.data

C13_ExistsAndGet ==
    /\ [](res.op = "exists" => res.ret = (store[res.key] # Absent))
    /\ [](res.op = "get"
            => res.ret = IF store[res.key] = Absent THEN NotFound ELSE store[res.key])
    /\ [][\A k \in Keys : (StoreExists(k) \/ StoreGet(k)) => store' = store]_vars

C13_Witness ==
    /\ res.op = "get" /\ res.ret = NotFound
    /\ store[res.key] = Absent
    /\ \E k2 \in Keys : IsImageFile(store[k2])

-----------------------------------------------------------------------------
(* Properties of upload_image with its answer (SpecUpload).                 *)

\* C14: an upload whose bytes are no image is answered with status fail (the
\* unrecognized-format message when project and extension pass), never ok, and
\* leaves the storage exactly as it was.
C14_UndecodableUploadFails ==
    [][\A u \in UploadRequests :
        (UploadAnswered(u) /\ ~IsImageFile(u.file))
            => /\ resp'.status = "fail"
               /\ (u.project \in DOMAIN PROJECTS /\ u.extension \in ALLOWED_EXTENSIONS)
                    => resp'.message = "not a recognized image format"
               /\ store' = store]_vars

C14_Witness ==
    /\ resp # Nothing
    /\ resp.status = "fail" /\ resp.message = "not a recognized image format"
    /\ \A k \in Keys : IsImageFile(store[k])

-----------------------------------------------------------------------------
(* Further properties of _calc_size (SpecFit).                              *)

\* C15: for a source with w <= 0 or h <= 0, calc_size fails with
\* InvalidSource whatever the bounding box, and returns no size.
C15_DegenerateSourceRejected ==
    (Called /\ ~Positive) => fitOut = InvalidSource

\* C19: for a bounding box with both sides at least 1 and a source size with
\* both sides at least 1, calc_size returns a width and a height of at least 1.
C19_OutputAtLeastOne ==
    (Called /\ Positive) => (fitOut[1] >= 1 /\ fitOut[2] >= 1)

-----------------------------------------------------------------------------
(* What serve calls and uploads do to the storage (Spec).                   *)

\* C16: a serve call writes only in its last step, after its test of line 73
\* found its key absent, and then only the artifact of its own key, whose size
\* is a configured named size; no step of a serve call changes an original or
\* the artifact of another key, and no step at all changes a named-size
\* artifact but the writing step of a serve call for that key.
C16_ServeWritesOwnVariant ==
    [][/\ \A p \in Handlers :
            /\ (pc[p] = "l73" /\ pc'[p] = "l57") => ~exists(store, KeyOf(req[p]))
            /\ (pc[p] # "l57" /\ pc'[p] = "l57") => pc[p] = "l73"
            /\ (pc[p] # "l59" /\ pc'[p] = "l59") => pc[p] = "l57"
            /\ (pc[p] # "l61" /\ pc'[p] = "l61") => pc[p] = "l59"
            /\ (pc'[p] # pc[p] /\ store' # store)
                => /\ pc[p] = "l61" /\ pc'[p] = "done"
                   /\ ConfiguredSize(req[p])
                   /\ \A k \in Keys \ {KeyOf(req[p])} : store'[k] = store[k]
       /\ \A k \in VariantKeys :
            store'[k] # store[k]
                => \E p \in Handlers :
                      pc[p] = "l61" /\ pc'[p] = "done" /\ KeyOf(req[p]) = k]_vars

C16_Witness ==
    \E p \in Handlers :
        /\ pc[p] = "done" /\ ConfiguredSize(req[p])
        /\ ops[p] = {"exists", "get", "open", "lookup", "resize", "save_image", "encode"}
        /\ store[KeyOf(req[p])] = out[p]
        /\ uploaded[OriginalOf(req[p])] # Nothing

\* C17: no step of a serve call or of an upload removes an artifact: a key
\* that exists before a step exists after it.
C17_StoreOnlyGrows ==
    [][\A k \in Keys : exists(store, k) => exists(store', k)]_vars

C17_Witness ==
    /\ \A k \in Keys : exists(store, k)
    /\ \E k \in VariantKeys : dirty[k]

\* C18: an upload changes no artifact but the original of its image, and a
\* serve call that finds its named-size artifact stored goes on to return the
\* stored bytes and writes nothing, whatever the original is by then.
C18_UploadKeepsVariants ==
    [][/\ \A u \in UploadRequests :
            Upload(u) => \A k \in Keys \ {OriginalOf(u)} : store'[k] = store[k]
       /\ \A p \in Handlers :
            (pc[p] \in {"l73", "l76"} /\ NamedSize(req[p]) /\ exists(store, KeyOf(req[p])))
                => /\ (pc[p] = "l73" /\ pc'[p] # "l73") => pc'[p] = "l76"
                   /\ (pc[p] = "l76" /\ pc'[p] # "l76")
                        => /\ pc'[p] = "done"
                           /\ out'[p] = store[KeyOf(req[p])]
                           /\ store' = store]_vars

C18_Witness ==
    \E p \in Handlers :
        /\ pc[p] = "done" /\ ConfiguredSize(req[p])
        /\ ops[p] = {"exists", "get"}
        /\ out[p] = store[KeyOf(req[p])]
        /\ exists(store, OriginalOf(req[p]))
        /\ ImageOpen(out[p]).size # ImageOpen(VariantOf(store, req[p])).size

====
